---- MODULE Spec2Model ----
(***************************************************************************)
(* Model of the buy_smarter product grouping and price aggregation code.   *)
(*                                                                         *)
(* Strings are sequences of one-character strings, so that split, slice,   *)
(* join, toLowerCase and includes are computed as the JavaScript code      *)
(* computes them.  The cpu_products table is a sequence of rows; the       *)
(* endpoints read it and build their responses from it.                    *)
(***************************************************************************)
EXTENDS Integers, Sequences, FiniteSets, TLC

VARIABLES
    table,            \* rows of cpu_products, in insertion order (id = position)
    resp,             \* the last response a listing endpoint built
    aiPc,             \* position of the running groupProductsWithAI call
    aiProducts,       \* its argument: the rows GET fetched
    aiIndex,          \* its loop index i
    aiGrouped,        \* its groupedProducts, in insertion order
    aiOutcome,        \* per processed row: how the prediction of that row ended
    batch,            \* the raw listings of the reconciliation batch
    catalog,          \* the canonical products, in creation order (id = position)
    lstate,           \* per listing: Unprocessed, AutoMatched, Escalated, Resolved
    bound,            \* per listing: the id of its canonical product, 0 if none
    work,             \* per worker: the listing it resolves and its match decision
    call,             \* the last call of a pure operation: arguments and result
    conn,             \* the route handler at work on a request and its database connection
    ui                \* the product list component in the browser and its requests in flight

vars == <<table, resp, aiPc, aiProducts, aiIndex, aiGrouped, aiOutcome,
          batch, catalog, lstate, bound, work, call, conn, ui>>

-----------------------------------------------------------------------------
(* Bounds of the model *)

MaxRows == 3
MaxListings == 2
NumWorkers == 2

-----------------------------------------------------------------------------
(* JavaScript strings *)

Min(a, b) == IF a < b THEN a ELSE b
Max(a, b) == IF a < b THEN b ELSE a

UpperChars ==
    <<"A","B","C","D","E","F","G","H","I","J","K","L","M",
      "N","O","P","Q","R","S","T","U","V","W","X","Y","Z">>
LowerChars ==
    <<"a","b","c","d","e","f","g","h","i","j","k","l","m",
      "n","o","p","q","r","s","t","u","v","w","x","y","z">>

toLowerChar(c) ==
    IF \E k \in 1..Len(UpperChars) : UpperChars[k] = c
    THEN LowerChars[CHOOSE k \in 1..Len(UpperChars) : UpperChars[k] = c]
    ELSE c

\* String.prototype.toLowerCase
toLowerCase(s) == [k \in 1..Len(s) |-> toLowerChar(s[k])]

\* String.prototype.includes
includes(s, t) ==
    \E k \in 0..(Len(s) - Len(t)) : SubSeq(s, k + 1, k + Len(t)) = t

RECURSIVE splitFrom(_, _, _, _)
splitFrom(s, k, cur, out) ==
    IF k > Len(s) THEN Append(out, cur)
    ELSE IF s[k] = " " THEN splitFrom(s, k + 1, <<>>, Append(out, cur))
    ELSE splitFrom(s, k + 1, Append(cur, s[k]), out)

\* s.split(' '): the pieces between single spaces, empty pieces kept
split(s) == splitFrom(s, 1, <<>>, <<>>)

\* a.slice(0, n)
slice(a, n) == SubSeq(a, 1, Min(n, Len(a)))

RECURSIVE join(_)
\* a.join(' ')
join(a) ==
    IF Len(a) = 0 THEN <<>>
    ELSE IF Len(a) = 1 THEN a[1]
    ELSE a[1] \o <<" ">> \o join(Tail(a))

\* s.trim() === ''  (the only white space of the modelled names is the space)
trimIsEmpty(s) == \A k \in 1..Len(s) : s[k] = " "

\* SQL NULL, and a JavaScript null/undefined, in a string or a number column
NullStr == <<"<null>">>
NullNum == -1

\* !s for a string-or-null value
falsy(s) == s = NullStr \/ s = <<>>

-----------------------------------------------------------------------------
(* Brand markers searched by extractBrand *)

sIntel == <<"i","n","t","e","l">>
sAmd   == <<"a","m","d">>
sRyzen == <<"r","y","z","e","n">>
sCore  == <<"c","o","r","e">>

\* The brands extractBrand returns
bIntel   == <<"I","n","t","e","l">>
bAMD     == <<"A","M","D">>
bUnknown == <<"U","n","k","n","o","w","n">>

extractBrand(standardName) ==
    IF includes(toLowerCase(standardName), sIntel) THEN bIntel
    ELSE IF includes(toLowerCase(standardName), sAmd) THEN bAMD
    ELSE IF includes(toLowerCase(standardName), sRyzen) THEN bAMD
    ELSE IF includes(toLowerCase(standardName), sCore) THEN bIntel
    ELSE bUnknown

-----------------------------------------------------------------------------
(* Arrays *)

\* Array.prototype.sort with a comparator (stable).  less[j, k] is
\* cmp(a[j], a[k]) < 0.  Each element goes to the place given by the number of
\* elements that sort before it.
StableSort(a, less) ==
    LET before(k) ==
            {j \in 1..Len(a) : less[j, k] \/ (~less[k, j] /\ j < k)}
    IN  [r \in 1..Len(a) |->
            a[CHOOSE k \in 1..Len(a) : Cardinality(before(k)) = r - 1]]

\* Code-point order of the characters of the modelled names
CharOrder ==
    <<" ", "-", "0","1","2","3","4","5","6","7","8","9">> \o UpperChars \o LowerChars

charCode(c) == CHOOSE k \in 1..Len(CharOrder) : CharOrder[k] = c

RECURSIVE strLess(_, _)
strLess(s, t) ==
    IF Len(t) = 0 THEN FALSE
    ELSE IF Len(s) = 0 THEN TRUE
    ELSE IF s[1] = t[1] THEN strLess(Tail(s), Tail(t))
    ELSE charCode(s[1]) < charCode(t[1])

\* Number(x) of a price column: null counts as 0 in Math.min, Math.max and +
num(x) == IF x = NullNum THEN 0 ELSE x

-----------------------------------------------------------------------------
(* Grouped products *)

\* The position of the group stored under key, 0 when groupedProducts[key]
\* is undefined.
groupIndex(groups, key) ==
    IF \E k \in 1..Len(groups) : groups[k].standard_name = key
    THEN CHOOSE k \in 1..Len(groups) : groups[k].standard_name = key
    ELSE 0

newGroup(key, product, confidence) ==
    [ id             |-> key,
      standard_name  |-> key,
      brand          |-> extractBrand(key),
      raw_names      |-> <<>>,
      min_price      |-> product.price_bdt,
      max_price      |-> product.price_bdt,
      avg_price      |-> [num |-> num(product.price_bdt), den |-> 1],
      vendor_count   |-> 0,
      total_listings |-> 0,
      vendors        |-> <<>>,
      price_entries  |-> <<>>,
      ai_confidence  |-> confidence ]

\* Array.from(new Set([...vendors, v]))
addVendor(vendors, v) ==
    IF \E k \in 1..Len(vendors) : vendors[k] = v THEN vendors ELSE Append(vendors, v)

priceEntry(product) ==
    [ id          |-> product.id,
      vendor_name |-> product.vendor_name,
      raw_name    |-> product.raw_name,
      price_bdt   |-> product.price_bdt ]

\* "Add to grouped product": guarded is TRUE where the min/max update is inside
\* if (product.price_bdt && product.price_bdt > 0).
addToGroup(g, product, guarded) ==
    LET upd == ~guarded \/ (product.price_bdt # NullNum /\ product.price_bdt > 0)
    IN  [ g EXCEPT
            !.raw_names      = Append(@, product.raw_name),
            !.min_price      = IF upd THEN Min(num(@), num(product.price_bdt)) ELSE @,
            !.max_price      = IF upd THEN Max(num(@), num(product.price_bdt)) ELSE @,
            !.vendor_count   = Len(addVendor(g.vendors, product.vendor_name)),
            !.total_listings = @ + 1,
            !.vendors        = addVendor(@, product.vendor_name),
            !.price_entries  = Append(@, priceEntry(product)) ]

\* One loop iteration: create the group when groupedProducts[key] is undefined,
\* then add the product to it.
groupStep(groups, key, product, confidence, guarded) ==
    LET k == groupIndex(groups, key)
    IN  IF k = 0
        THEN Append(groups, addToGroup(newGroup(key, product, confidence), product, guarded))
        ELSE [groups EXCEPT ![k] = addToGroup(@, product, guarded)]

RECURSIVE sumPrices(_)
sumPrices(entries) ==
    IF Len(entries) = 0 THEN 0
    ELSE num(entries[1].price_bdt) + sumPrices(Tail(entries))

\* product.avg_price = sum / price_entries.length, kept as an exact fraction
withAverage(g) ==
    [g EXCEPT !.avg_price = [num |-> sumPrices(g.price_entries),
                             den |-> Len(g.price_entries)]]

\* The sort comparator: vendor count descending, then min price ascending
groupLess(a, b) ==
    IF b.vendor_count # a.vendor_count
    THEN b.vendor_count - a.vendor_count < 0
    ELSE a.min_price - b.min_price < 0

\* "Calculate average prices and sort"
finishGroups(groups) ==
    LET a == [k \in 1..Len(groups) |-> withAverage(groups[k])]
    IN  StableSort(a, [j \in 1..Len(a), k \in 1..Len(a) |-> groupLess(a[j], a[k])])

\* The grouping key of groupProductsByAI: standard_name if available, otherwise
\* the first 4 words of raw_name.
byAIKey(product) ==
    IF falsy(product.standard_name) \/ trimIsEmpty(product.standard_name)
    THEN join(slice(split(product.raw_name), 4))
    ELSE product.standard_name

\* The grouping key of fallbackGroupProducts: the first 3 words of raw_name.
fallbackKey(product) == join(slice(split(product.raw_name), 3))

RECURSIVE byAILoop(_, _)
byAILoop(products, groups) ==
    IF Len(products) = 0 THEN groups
    ELSE byAILoop(Tail(products),
                  groupStep(groups, byAIKey(products[1]), products[1], 85, TRUE))

groupProductsByAI(products) == finishGroups(byAILoop(products, <<>>))

RECURSIVE fallbackLoop(_, _)
fallbackLoop(products, groups) ==
    IF Len(products) = 0 THEN groups
    ELSE fallbackLoop(Tail(products),
                      groupStep(groups, fallbackKey(products[1]), products[1], 50, FALSE))

fallbackGroupProducts(products) == finishGroups(fallbackLoop(products, <<>>))

-----------------------------------------------------------------------------
(* The cpu_products table and the SQL the routes send *)

\* A row as the scraper feed inserts it: id is its position in the table.
Row(id, standard_name, brand, vendor_name, raw_name, price_bdt) ==
    [ id            |-> id,
      standard_name |-> standard_name,
      brand         |-> brand,
      vendor_name   |-> vendor_name,
      raw_name      |-> raw_name,
      price_bdt     |-> price_bdt ]

\* price_bdt IS NOT NULL AND price_bdt > 0
pricePositive(r) == r.price_bdt # NullNum /\ r.price_bdt > 0

\* col ILIKE '%term%' (and SQLite's LIKE, which ignores ASCII case too)
ilike(col, term) == col # NullStr /\ includes(toLowerCase(col), toLowerCase(term))

\* The WHERE clause the routes build from the search and brand parameters
whereClause(r, search, brand) ==
    /\ falsy(search)
        \/ ilike(r.standard_name, search)
        \/ ilike(r.raw_name, search)
        \/ ilike(r.brand, search)
    /\ falsy(brand) \/ (r.brand # NullStr /\ r.brand = brand)

rawNameLess(a, b) == strLess(a.raw_name, b.raw_name)
priceLess(a, b) == a.price_bdt < b.price_bdt

\* allProductsQuery of the ai-products-pg route:
\* WHERE <whereClause> AND price_bdt IS NOT NULL AND price_bdt > 0 ORDER BY raw_name ASC
allProductsQueryPg(rows, search, brand) ==
    LET keep(r) == whereClause(r, search, brand) /\ pricePositive(r)
        a == SelectSeq(rows, keep)
    IN  StableSort(a, [j \in 1..Len(a), k \in 1..Len(a) |-> rawNameLess(a[j], a[k])])

\* allProductsQuery of the ai-products route:
\* WHERE price_bdt IS NOT NULL AND price_bdt > 0 ORDER BY price_bdt ASC
allProductsQuery(rows) ==
    LET a == SelectSeq(rows, pricePositive)
    IN  StableSort(a, [j \in 1..Len(a), k \in 1..Len(a) |-> priceLess(a[j], a[k])])

\* filteredProducts.slice(startIndex, startIndex + limit)
paginate(a, page, limit) ==
    SubSeq(a, Max((page - 1) * limit, 0) + 1, Min((page - 1) * limit + limit, Len(a)))

\* Math.ceil(total / limit)
totalPages(total, limit) == (total + limit - 1) \div limit

\* The JavaScript search and brand filters applied to the grouped products
\* (ai-products-pg: with the brand test in the search filter)
searchMatches(g, search, withBrand) ==
    \/ includes(toLowerCase(g.standard_name), toLowerCase(search))
    \/ \E k \in 1..Len(g.raw_names) :
          includes(toLowerCase(g.raw_names[k]), toLowerCase(search))
    \/ withBrand /\ includes(toLowerCase(g.brand), toLowerCase(search))

\* The ai-products-pg route (GET): fetch, group, filter, paginate.
aiProductsPg(rows, search, brand, page, limit) ==
    LET allProducts == allProductsQueryPg(rows, search, brand)
        groupedProducts == groupProductsByAI(allProducts)
        bySearch(g) == falsy(search) \/ searchMatches(g, search, TRUE)
        byBrand(g) == falsy(brand) \/ toLowerCase(g.brand) = toLowerCase(brand)
        filteredProducts == SelectSeq(SelectSeq(groupedProducts, bySearch), byBrand)
    IN  [ route      |-> "ai-products-pg",
          status     |-> 200,
          products   |-> paginate(filteredProducts, page, limit),
          total      |-> Len(filteredProducts),
          page       |-> page,
          limit      |-> limit,
          totalPages |-> totalPages(Len(filteredProducts), limit),
          fetched    |-> allProducts,
          rows       |-> Len(rows) ]

-----------------------------------------------------------------------------
(* SQL aggregation: GROUP BY standard_name, brand *)

SetMin(S) == CHOOSE x \in S : \A y \in S : x <= y
SetMax(S) == CHOOSE x \in S : \A y \in S : y <= x

RECURSIVE SetSum(_)
SetSum(S) == IF S = {} THEN 0 ELSE LET x == CHOOSE y \in S : TRUE IN x[2] + SetSum(S \ {x})

\* Math.round(sum / n * 100) / 100 as a number of hundredths (null * 100 is 0)
roundedAvg(sum, n) == IF n = 0 THEN 0 ELSE (200 * sum + n) \div (2 * n)

\* The keys of the groups, in the order their first row appears
RECURSIVE groupKeys(_, _)
groupKeys(rows, keys) ==
    IF Len(rows) = 0 THEN keys
    ELSE LET key == <<rows[1].standard_name, rows[1].brand>>
         IN  groupKeys(Tail(rows),
                       IF \E k \in 1..Len(keys) : keys[k] = key THEN keys
                       ELSE Append(keys, key))

\* One row of SELECT standard_name as id, standard_name, brand, MIN(price_bdt),
\* MAX(price_bdt), AVG(price_bdt), COUNT(DISTINCT vendor_name), COUNT(*) ...
\* with avg_price already formatted by Math.round(avg_price * 100) / 100.
\* MIN, MAX and AVG skip NULL prices; COUNT(*) counts every row of the group.
sqlAggregate(rows, key) ==
    LET members == {k \in 1..Len(rows) :
                        <<rows[k].standard_name, rows[k].brand>> = key}
        priced  == {k \in members : rows[k].price_bdt # NullNum}
        prices  == {rows[k].price_bdt : k \in priced}
    IN  [ id             |-> key[1],
          standard_name  |-> key[1],
          brand          |-> key[2],
          min_price      |-> IF priced = {} THEN NullNum ELSE SetMin(prices),
          max_price      |-> IF priced = {} THEN NullNum ELSE SetMax(prices),
          avg_price      |-> [num |-> roundedAvg(SetSum({<<k, rows[k].price_bdt>> : k \in priced}),
                                                  Cardinality(priced)),
                              den |-> 100],
          vendor_count   |-> Cardinality({rows[k].vendor_name : k \in members}
                                            \ {NullStr}),
          total_listings |-> Cardinality(members),
          price_entries  |-> <<>> ]

\* ORDER BY vendor_count DESC, min_price ASC
sqlOrderLess(a, b) ==
    IF a.vendor_count # b.vendor_count THEN a.vendor_count > b.vendor_count
    ELSE a.min_price < b.min_price

\* productsQuery of the cpu-products-universal route: no price filter in its
\* WHERE clause.
productsQueryUniversal(rows, search, brand, limit, skip) ==
    LET keep(r) == whereClause(r, search, brand)
        a == SelectSeq(rows, keep)
        keys == groupKeys(a, <<>>)
        g == [k \in 1..Len(keys) |-> sqlAggregate(a, keys[k])]
        sorted == StableSort(g, [j \in 1..Len(g), k \in 1..Len(g) |-> sqlOrderLess(g[j], g[k])])
    IN  SubSeq(sorted, Max(skip, 0) + 1, Min(skip + limit, Len(sorted)))

\* countQuery: SELECT COUNT(DISTINCT standard_name) ... <whereClause>
countQueryUniversal(rows, search, brand) ==
    LET keep(r) == whereClause(r, search, brand)
        a == SelectSeq(rows, keep)
    IN  Cardinality({a[k].standard_name : k \in 1..Len(a)} \ {NullStr})

\* The cpu-products-universal route (GET)
cpuProductsUniversal(rows, search, brand, page, limit) ==
    LET total == countQueryUniversal(rows, search, brand)
    IN  [ route      |-> "cpu-products-universal",
          status     |-> 200,
          products   |-> productsQueryUniversal(rows, search, brand, limit, (page - 1) * limit),
          total      |-> total,
          page       |-> page,
          limit      |-> limit,
          totalPages |-> totalPages(total, limit),
          fetched    |-> SelectSeq(rows, LAMBDA r : whereClause(r, search, brand)),
          rows       |-> Len(rows) ]

\* The product route cpu-products/[id] (GET): the aggregates of the rows of
\* one standard_name with a positive price, 404 when the query has no row
cpuProduct(rows, productId) ==
    LET keep(r) == r.standard_name = productId /\ pricePositive(r)
        a == SelectSeq(rows, keep)
        keys == groupKeys(a, <<>>)
        priceEntries == StableSort(a, [j \in 1..Len(a), k \in 1..Len(a) |-> priceLess(a[j], a[k])])
    IN  [ route      |-> "cpu-products/[id]",
          status     |-> IF Len(keys) = 0 THEN 404 ELSE 200,
          products   |-> IF Len(keys) = 0 THEN <<>>
                         ELSE <<[sqlAggregate(a, keys[1]) EXCEPT
                                    !.price_entries = [k \in 1..Len(a) |-> priceEntry(priceEntries[k])]]>>,
          total      |-> Len(keys),
          page       |-> 0,
          limit      |-> 0,
          totalPages |-> 0,
          fetched    |-> a,
          rows       |-> Len(rows) ]

-----------------------------------------------------------------------------
(* Input data: vendor titles, vendors, prices *)

wAMD       == <<"A","M","D">>
wRyzen     == <<"R","y","z","e","n">>
wRyzen5    == <<"R","y","z","e","n","5">>
wRadeon    == <<"R","a","d","e","o","n">>
wRX        == <<"R","X">>
w5         == <<"5">>
w7         == <<"7">>
w5600      == <<"5","6","0","0">>
w7700      == <<"7","7","0","0">>
w7700X     == <<"7","7","0","0","X">>
w7700XT    == <<"7","7","0","0","X","T">>
wProcessor == <<"P","r","o","c","e","s","s","o","r">>
w6Core     == <<"6","-","C","o","r","e">>
wVs        == <<"v","s">>
wIntel     == <<"I","n","t","e","l">>

nRyzen7700      == join(<<wRyzen, w7, w7700>>)
nRyzen7700X     == join(<<wRyzen, w7, w7700X>>)
nRadeon7700XT   == join(<<wRadeon, wRX, w7700XT>>)
nAmdRyzen7700   == join(<<wAMD, wRyzen, w7, w7700>>)
nAmdRyzen7700X  == join(<<wAMD, wRyzen, w7, w7700X>>)
nAmdRadeon7700XT == join(<<wAMD, wRadeon, wRX, w7700XT>>)
nAmdRyzen5600Processor == join(<<wAMD, wRyzen, w5, w5600, wProcessor>>)
nRyzen5_5600_6Core == join(<<wRyzen5, w5600, w6Core>>)
nRyzen5600      == join(<<wRyzen, w5, w5600>>)
nRyzenVsIntel   == join(<<wRyzen, w5, wVs, wIntel>>)
nAmdRyzen5600   == join(<<wAMD, wRyzen, w5, w5600>>)

\* The three spellings of the 7700 family, without and with a leading brand word
Family7700 ==
    { <<nRyzen7700, nRyzen7700X, nRadeon7700XT>>,
      <<nAmdRyzen7700, nAmdRyzen7700X, nAmdRadeon7700XT>> }

\* The three vendor spellings of the Ryzen 5 5600
Variants5600 == {nAmdRyzen5600Processor, nRyzen5_5600_6Core, nRyzen5600}

vStarTech == <<"S","t","a","r"," ","T","e","c","h">>
vRyans    == <<"R","y","a","n","s">>
vTechLand == <<"T","e","c","h","L","a","n","d">>

Vendors == {vStarTech, vRyans, vTechLand}

\* The price a vendor lists (one per vendor where the price is not what is examined)
vendorPrice(v) == IF v = vStarTech THEN 18500 ELSE IF v = vRyans THEN 19200 ELSE 19500

\* The vendor whose title each spelling is
vendorOf(n) ==
    IF n \in {nRyzen7700, nRyzen7700X, nAmdRadeon7700XT, nAmdRyzen5600Processor,
              nRyzenVsIntel}
    THEN vStarTech
    ELSE IF n \in {nRadeon7700XT, nAmdRyzen7700, nAmdRyzen7700X, nRyzen5_5600_6Core}
    THEN vRyans
    ELSE vTechLand

Titles ==
    {nRyzen7700, nRyzen7700X, nRadeon7700XT, nAmdRyzen7700, nAmdRyzen7700X,
     nAmdRadeon7700XT, nRyzenVsIntel} \cup Variants5600

\* Titles a scraper stores when it finds no text: empty, or white space only
BlankTitles == {<<>>, <<" ", " ">>}

\* Row templates for the grouping by name: every title as an unresolved row
\* (standard_name NULL, or blank), and the spellings of the 5600 also as rows
\* resolved upstream to the standard name "AMD Ryzen 5 5600".
GroupTemplates ==
    {[raw_name |-> n, standard_name |-> NullStr] : n \in Titles}
    \cup {[raw_name |-> nRyzen5600, standard_name |-> <<" ">>]}
    \cup {[raw_name |-> n, standard_name |-> nAmdRyzen5600] : n \in Variants5600}
    \cup {[raw_name |-> n, standard_name |-> NullStr] : n \in BlankTitles}

\* Row templates for the price statistics: one product, prices that are NULL,
\* zero and positive, from three vendors.
Prices == {NullNum, 0, 18500, 19200}

-----------------------------------------------------------------------------
(* Default query parameters of the routes *)

DefaultPage == 1
DefaultLimitPg == 12
DefaultLimitUniversal == 50

-----------------------------------------------------------------------------
(* Actions *)

NoWork == [listing |-> 0, candidate |-> 0, score |-> 0]
NoCall == [op |-> "none"]

\* No request is being handled
NoRequest == [ pc |-> "idle", route |-> "none", NODE_ENV |-> "development",
               DATABASE_URL |-> FALSE, search |-> FALSE, brand |-> FALSE,
               isPostgres |-> FALSE, open |-> 0, pending |-> <<>>, sent |-> <<>>,
               status |-> 0 ]

NoResponse == [route |-> "none", status |-> 0, products |-> <<>>, total |-> 0,
               page |-> 0, limit |-> 0, totalPages |-> 0, fetched |-> <<>>,
               rows |-> 0]

aiVars == <<aiPc, aiProducts, aiIndex, aiGrouped, aiOutcome>>
engineVars == <<batch, catalog, lstate, bound, work, call, conn, ui>>

\* The scraper feed appends a row (the table is append-only; id is SERIAL).
Ingest(standard_name, brand, vendor_name, raw_name, price_bdt) ==
    /\ Len(table) < MaxRows
    /\ table' = Append(table, Row(Len(table) + 1, standard_name, brand,
                                  vendor_name, raw_name, price_bdt))
    /\ UNCHANGED <<resp, aiVars, engineVars>>

IngestListing ==
    \E t \in GroupTemplates :
        Ingest(t.standard_name, NullStr, vendorOf(t.raw_name), t.raw_name,
               vendorPrice(vendorOf(t.raw_name)))

IngestPriced ==
    \E v \in Vendors, p \in Prices :
        Ingest(nAmdRyzen5600, bAMD, v, nRyzen5600, p)

\* GET /api/ai-products-pg with the default parameters
GetAiProductsPg ==
    /\ resp' = aiProductsPg(table, NullStr, NullStr, DefaultPage, DefaultLimitPg)
    /\ UNCHANGED <<table, aiVars, engineVars>>

\* GET /api/cpu-products-universal with the default parameters
GetCpuProductsUniversal ==
    /\ resp' = cpuProductsUniversal(table, NullStr, NullStr, DefaultPage,
                                    DefaultLimitUniversal)
    /\ UNCHANGED <<table, aiVars, engineVars>>

\* GET /api/cpu-products/[id] for the product of the priced listings
GetCpuProduct ==
    /\ resp' = cpuProduct(table, nAmdRyzen5600)
    /\ UNCHANGED <<table, aiVars, engineVars>>

\* No page is open in the browser
NoPage == [ component |-> "none" ]

IdleStore ==
    /\ table = <<>>
    /\ resp = NoResponse
    /\ aiPc = "idle"
    /\ aiProducts = <<>>
    /\ aiIndex = 0
    /\ aiGrouped = <<>>
    /\ aiOutcome = <<>>
    /\ call = NoCall
    /\ conn = NoRequest

InitIdle == IdleStore /\ ui = NoPage

\* No reconciliation batch
EngineIdle ==
    /\ batch = <<>>
    /\ catalog = <<>>
    /\ lstate = <<>>
    /\ bound = <<>>
    /\ work = [w \in 1..NumWorkers |-> NoWork]

Init == InitIdle /\ EngineIdle

\* Grouping by name through the ai-products-pg route
Next ==
    \/ IngestListing
    \/ GetAiProductsPg

Spec == Init /\ [][Next]_vars

\* Price statistics through both aggregating routes
NextAgg ==
    \/ IngestPriced
    \/ GetAiProductsPg
    \/ GetCpuProductsUniversal
    \/ GetCpuProduct

SpecAgg == Init /\ [][NextAgg]_vars

-----------------------------------------------------------------------------
(* The ai-products route: groupProductsWithAI under two timers *)

AI_LIMIT == 50
DefaultLimitAi == 12

\* Titles the ai-products table holds, the names the predictor may answer
AiTitles == {nAmdRyzen7700, nAmdRyzen7700X, nRyzen5600, nRyzen5_5600_6Core}
PredictedNames == {nAmdRyzen5600, nAmdRyzen7700}

\* What predictWithAI resolves with when the predictor fails (exit code not 0,
\* no JSON line, unparsable JSON, type "error"): the raw name, confidence 0.1
PredictorFailures == {"exit", "nojson", "parse", "error"}
fallbackPrediction(rawName) ==
    [predicted_standard_name |-> rawName, confidence |-> 10]

\* The rest of GET once the groups are known: filters and pagination
aiProductsResponse(aiGroupedProducts, allProducts, search, brand, page, limit) ==
    LET bySearch(g) == falsy(search) \/ searchMatches(g, search, FALSE)
        byBrand(g) == falsy(brand) \/ toLowerCase(g.brand) = toLowerCase(brand)
        filteredProducts == SelectSeq(SelectSeq(aiGroupedProducts, bySearch), byBrand)
    IN  [ route      |-> "ai-products",
          status     |-> 200,
          products   |-> paginate(filteredProducts, page, limit),
          total      |-> Len(filteredProducts),
          page       |-> page,
          limit      |-> limit,
          totalPages |-> totalPages(Len(filteredProducts), limit),
          fetched    |-> allProducts ]

IngestAiListing ==
    \E n \in AiTitles :
        Ingest(NullStr, NullStr, vendorOf(n), n, vendorPrice(vendorOf(n)))

\* GET /api/ai-products: fetch the rows, start groupProductsWithAI and the
\* 30 s timer
GetAiProducts ==
    /\ aiPc = "idle"
    /\ aiPc' = "loop"
    /\ aiProducts' = allProductsQuery(table)
    /\ aiIndex' = 0
    /\ aiGrouped' = <<>>
    /\ aiOutcome' = <<>>
    /\ resp' = NoResponse
    /\ UNCHANGED <<table, engineVars>>

\* The response of the catch block of GET: status 500
aiProductsError ==
    [ route      |-> "ai-products",
      status     |-> 500,
      products   |-> <<>>,
      total      |-> 0,
      page       |-> 0,
      limit      |-> 0,
      totalPages |-> 0,
      fetched    |-> <<>> ]

\* GET /api/ai-products while the storage is unreachable: open() or db.all()
\* rejects and the catch block of GET answers
GetAiProductsStorageFails ==
    /\ aiPc = "idle"
    /\ resp' = aiProductsError
    /\ aiProducts' = <<>>
    /\ aiIndex' = 0
    /\ aiGrouped' = <<>>
    /\ aiOutcome' = <<>>
    /\ UNCHANGED <<table, aiPc, engineVars>>

\* products.slice(0, 50)
limitedProducts == slice(aiProducts, AI_LIMIT)

InLoop == aiPc = "loop" /\ aiIndex < Len(limitedProducts)

\* The try block of the loop body once aiResult is known
aiAdd(aiResult, outcome) ==
    /\ aiGrouped' = groupStep(aiGrouped, aiResult.predicted_standard_name,
                              limitedProducts[aiIndex + 1], aiResult.confidence, FALSE)
    /\ aiOutcome' = Append(aiOutcome, outcome)
    /\ aiIndex' = aiIndex + 1
    /\ UNCHANGED <<table, resp, aiPc, aiProducts, engineVars>>

\* The predictor answers within 5 s with a standard name
PredictAnswers ==
    /\ InLoop
    /\ \E name \in PredictedNames :
          aiAdd([predicted_standard_name |-> name, confidence |-> 90], "answered")

\* The predictor fails within 5 s: predictWithAI resolves with the fallback
\* prediction
PredictFails ==
    /\ InLoop
    /\ \E failure \in PredictorFailures :
          aiAdd(fallbackPrediction(limitedProducts[aiIndex + 1].raw_name), "failed")

\* The 5 s timer fires first: the race rejects, the catch block logs and the
\* loop goes on ("Skip this product if AI prediction fails")
PredictTimesOut ==
    /\ InLoop
    /\ aiOutcome' = Append(aiOutcome, "timeout")
    /\ aiIndex' = aiIndex + 1
    /\ UNCHANGED <<table, resp, aiPc, aiProducts, aiGrouped, engineVars>>

\* The loop is over: groupProductsWithAI returns and GET answers
AiFinished ==
    /\ aiPc = "loop"
    /\ aiIndex = Len(limitedProducts)
    /\ resp' = aiProductsResponse(finishGroups(aiGrouped), aiProducts,
                                  <<>>, <<>>, DefaultPage, DefaultLimitAi)
    /\ aiPc' = "idle"
    /\ UNCHANGED <<table, aiProducts, aiIndex, aiGrouped, aiOutcome, engineVars>>

\* Mutant: at the deadline GET answers with the groups the loop built so far.
AiDeadlinePartial ==
    /\ aiPc = "loop"
    /\ resp' = aiProductsResponse(finishGroups(aiGrouped), aiProducts,
                                  <<>>, <<>>, DefaultPage, DefaultLimitAi)
    /\ aiPc' = "idle"
    /\ aiOutcome' = Append(aiOutcome, "deadline")
    /\ UNCHANGED <<table, aiProducts, aiIndex, aiGrouped, engineVars>>

\* The 30 s timer fires before groupProductsWithAI returns: GET answers with
\* fallbackGroupProducts over all the fetched rows.  A timer gives a lower
\* bound only and nothing bounds the time an iteration takes on a busy event
\* loop, so the deadline may pass at any iteration.
AiDeadline ==
    /\ aiPc = "loop"
    /\ resp' = aiProductsResponse(fallbackGroupProducts(aiProducts), aiProducts,
                                  <<>>, <<>>, DefaultPage, DefaultLimitAi)
    /\ aiPc' = "idle"
    /\ aiOutcome' = Append(aiOutcome, "deadline")
    /\ UNCHANGED <<table, aiProducts, aiIndex, aiGrouped, engineVars>>

NextAI ==
    \/ IngestAiListing
    \/ GetAiProducts
    \/ PredictAnswers
    \/ PredictFails
    \/ PredictTimesOut
    \/ AiFinished
    \/ AiDeadline
    \/ GetAiProductsStorageFails

SpecAI == Init /\ [][NextAI]_vars

-----------------------------------------------------------------------------
(* Properties of the grouping routes *)

GroupingRoutes == {"ai-products-pg", "ai-products"}

\* The places <<group, entry>> of the response where listing id is bound
bindings(r, id) ==
    {<<g, e>> \in (1..Len(r.products)) \X (1..MaxRows) :
        /\ e <= Len(r.products[g].price_entries)
        /\ r.products[g].price_entries[e].id = id}

\* The group ids (canonical products) of a response
productIds(r) == {r.products[g].id : g \in 1..Len(r.products)}

\* C1: after grouping a list of raw listings (groupProductsByAI,
\* groupProductsWithAI or fallbackGroupProducts) every input listing is bound
\* to exactly one canonical product: it is in the price_entries of one group
\* and of no second one.
C1_EveryListingBoundOnce ==
    resp.route \in GroupingRoutes =>
        \A j \in 1..Len(resp.fetched) :
            Cardinality(bindings(resp, resp.fetched[j].id)) = 1

\* C2: when the classifier fails for a listing (timeout, error), the listing
\* is still bound to a canonical product: every row of the loop whose
\* prediction failed or timed out is in the price_entries of a group.
C2_FailedPredictionStillBound ==
    \A j \in 1..Len(aiOutcome) :
        aiOutcome[j] \in {"failed", "timeout"} =>
            \E g \in 1..Len(aiGrouped) :
                \E e \in 1..Len(aiGrouped[g].price_entries) :
                    aiGrouped[g].price_entries[e].id = limitedProducts[j].id

\* C5: listings whose names differ only in the model-number suffix (7700,
\* 7700X, 7700XT), with or without a leading brand word, are never placed
\* under the same canonical product.
C5_DistinctSkusSeparated ==
    resp.route \in GroupingRoutes =>
        \A g \in 1..Len(resp.products) :
            \A fam \in Family7700 :
                Cardinality({k \in 1..3 :
                    \E e \in 1..Len(resp.products[g].raw_names) :
                        resp.products[g].raw_names[e] = fam[k]}) <= 1

\* C6: after reconciling the three spellings of the Ryzen 5 5600 in one batch,
\* in any order, exactly one canonical product holds them all.
C6_OneProductPerSku ==
    resp.route \in GroupingRoutes =>
        Cardinality({g \in 1..Len(resp.products) :
            \E e \in 1..Len(resp.products[g].raw_names) :
                resp.products[g].raw_names[e] \in Variants5600}) <= 1

\* C8: every escalation ends with the listing resolved within the same pass:
\* once the ai-products request has answered, whether each prediction was
\* answered or cut by its timer, every fetched listing is in a group of the
\* response.
C8_EveryEscalationResolves ==
    resp.route = "ai-products" =>
        \A j \in 1..Len(resp.fetched) :
            \E g \in 1..Len(resp.products) :
                \E e \in 1..Len(resp.products[g].price_entries) :
                    resp.products[g].price_entries[e].id = resp.fetched[j].id

\* Row b is a re-scrape of a row the response r already held: the same
\* (vendor_name, raw_name) pair
isRescrapeOf(r, b) ==
    \E j \in 1..Len(r.fetched) :
        /\ r.fetched[j].vendor_name = b.vendor_name
        /\ r.fetched[j].raw_name = b.raw_name

\* C9: re-processing the same (vendorName, rawName) pair does not create
\* another canonical product: when a run of the ai-products-pg route follows a
\* run and the only new rows are re-scrapes of rows the earlier run had
\* grouped, the set of products is the same.
C9_ReprocessingCreatesNoProduct ==
    [][ ( /\ resp.route = "ai-products-pg"
          /\ resp'.route = "ai-products-pg"
          /\ \A j \in 1..Len(resp.fetched) :
                \E k \in 1..Len(resp'.fetched) : resp'.fetched[k] = resp.fetched[j]
          /\ \A k \in 1..Len(resp'.fetched) : isRescrapeOf(resp, resp'.fetched[k]) )
        => productIds(resp') = productIds(resp) ]_vars

-----------------------------------------------------------------------------
(* Properties of the price statistics *)

AggregatingRoutes == {"ai-products-pg", "cpu-products-universal"}

\* The rows of the table, as it was when response r was built, that are the
\* listings of the product g of r
listingsOf(r, g) ==
    {k \in 1..r.rows :
        IF r.route = "ai-products-pg"
        THEN byAIKey(table[k]) = g.standard_name
        ELSE table[k].standard_name = g.standard_name /\ table[k].brand = g.brand}

\* C7: for every canonical product, minPrice, maxPrice, avgPrice, vendorCount
\* and listingCount are computed only over its listings with price > 0: min,
\* max, the mean rounded to 2 decimals, the number of distinct vendors and the
\* number of such listings.
C7_StatsOverPositivePrices ==
    resp.route \in AggregatingRoutes =>
        \A i \in 1..Len(resp.products) :
            LET g == resp.products[i]
                P == {k \in listingsOf(resp, g) : pricePositive(table[k])}
                sum == SetSum({<<k, table[k].price_bdt>> : k \in P})
            IN  P # {} =>
                    /\ g.min_price = SetMin({table[k].price_bdt : k \in P})
                    /\ g.max_price = SetMax({table[k].price_bdt : k \in P})
                    /\ g.avg_price.num * 100 = roundedAvg(sum, Cardinality(P)) * g.avg_price.den
                    /\ g.vendor_count = Cardinality({table[k].vendor_name : k \in P})
                    /\ g.total_listings = Cardinality(P)

-----------------------------------------------------------------------------
(* Properties of the brand guard *)

\* Every product of a grouping response whose name contains "ryzen" carries
\* the brand AMD.
RyzenIsAmd ==
    resp.route \in GroupingRoutes =>
        \A g \in 1..Len(resp.products) :
            includes(toLowerCase(resp.products[g].standard_name), sRyzen)
                => resp.products[g].brand = bAMD

-----------------------------------------------------------------------------
(* The Reconciliation Engine (Normalizer, Candidate Matcher, Engine) *)

FLOOR == 60
HIGH == 95

sNvidia == <<"n","v","i","d","i","a">>
bNVIDIA == <<"N","V","I","D","I","A">>
wNVIDIA == <<"N","V","I","D","I","A">>
wRTX    == <<"R","T","X">>
w4070   == <<"4","0","7","0">>
wCore   == <<"C","o","r","e">>
wI5     == <<"i","5">>

tEmpty == <<"<empty>">>
Boilerplate == {<<"p","r","o","c","e","s","s","o","r">>, <<"b","o","x">>, <<"t","r","a","y">>}

\* The trade mark and registered signs, one character each
Trademarks == {"(TM)", "(R)"}

\* Mutant: the boilerplate tokens are stripped before the name is lower-cased.
normalizeStripFirst(rawName) ==
    LET sign(c) == c \notin Trademarks
        keep(word) == word # <<>> /\ word \notin Boilerplate
        words == SelectSeq(split(SelectSeq(rawName, sign)), keep)
    IN  IF Len(words) = 0 THEN tEmpty ELSE toLowerCase(join(words))

\* normalize: lower-case, collapse white space, strip the boilerplate tokens
\* and the trade mark signs; an empty result is the sentinel "empty" token
normalize(rawName) ==
    LET sign(c) == c \notin Trademarks
        keep(word) == word # <<>> /\ word \notin Boilerplate
        words == SelectSeq(split(toLowerCase(SelectSeq(rawName, sign))), keep)
    IN  IF Len(words) = 0 THEN tEmpty ELSE join(words)

\* The brand a new canonical product gets: "Ryzen" implies AMD
brandOf(rawName) ==
    IF includes(toLowerCase(rawName), sRyzen) THEN bAMD
    ELSE IF includes(toLowerCase(rawName), sNvidia) THEN bNVIDIA
    ELSE IF includes(toLowerCase(rawName), sIntel) THEN bIntel
    ELSE bUnknown

GuardedCategories == {"CPU", "RAM", "Motherboard"}

\* Brand/category cross-validation guard, run before scoring: the candidate is
\* structurally incompatible with tokens of the raw name
guardExcludes(rawName, product) ==
    \/ includes(toLowerCase(rawName), sNvidia) /\ product.category \in GuardedCategories
    \/ includes(toLowerCase(rawName), sRyzen) /\ product.brand = bIntel

\* The candidates match() scores
eligible(rawName) ==
    {c \in 1..Len(catalog) : ~guardExcludes(rawName, catalog[c])}

\* The number of listings mapped to a product
mapped(c) == Cardinality({l \in 1..Len(bound) : bound[l].product = c})

\* Mutant: ties on the score are broken by the id alone.
bestOldest(cands, sc) ==
    CHOOSE c \in cands :
        \A d \in cands \ {c} : sc[c] > sc[d] \/ (sc[c] = sc[d] /\ c < d)

\* The best candidate under the scores sc: highest score, then more mapped
\* listings, then the older product
best(cands, sc) ==
    CHOOSE c \in cands :
        \A d \in cands \ {c} :
            \/ sc[c] > sc[d]
            \/ sc[c] = sc[d] /\ mapped(c) > mapped(d)
            \/ sc[c] = sc[d] /\ mapped(c) = mapped(d) /\ c < d

\* The scores a similarity metric may give: a candidate whose canonical name
\* is the token scores 1.00, any other candidate anything on either side of
\* the two thresholds
Scores == {59, 60, 94, 95}
scoreChoices(token, cands) ==
    {sc \in [cands -> Scores \cup {100}] :
        \A c \in cands : (sc[c] = 100) <=> (catalog[c].canonicalName = token)}

\* Mutant: a score equal to the high-confidence threshold is escalated.
transitionStrict(s) ==
    IF s > HIGH THEN "AutoMatched" ELSE IF s >= FLOOR THEN "Escalated" ELSE "New"

\* Mutant: a score at or below the high-confidence threshold auto-matches.
transitionAtBelow(s, high) ==
    IF s <= high /\ s >= FLOOR THEN "AutoMatched"
    ELSE IF s >= FLOOR THEN "Escalated" ELSE "New"

\* The transition out of Unprocessed the best score s selects when the
\* high-confidence threshold is configured as high
transitionAt(s, high) ==
    IF s >= high THEN "AutoMatched" ELSE IF s >= FLOOR THEN "Escalated" ELSE "New"

\* The transition out of Unprocessed the best score s selects
transition(s) == transitionAt(s, HIGH)

Unbound == [product |-> 0, via |-> "none"]

\* Mutant: a plain insert, without the unique constraint on
\* (category, canonicalName).
existingProductNone(category, canonicalName) == 0

\* The product the unique constraint on (category, canonicalName) finds, 0 if
\* there is none
existingProduct(category, canonicalName) ==
    IF \E c \in 1..Len(catalog) :
          catalog[c].category = category /\ catalog[c].canonicalName = canonicalName
    THEN CHOOSE c \in 1..Len(catalog) :
          catalog[c].category = category /\ catalog[c].canonicalName = canonicalName
    ELSE 0

\* Mutant: the product is created and the bind is left for a later step.
createWithoutBind(l) ==
    /\ catalog' = Append(catalog,
            [ id            |-> Len(catalog) + 1,
              category      |-> batch[l].category,
              canonicalName |-> normalize(batch[l].raw_name),
              brand         |-> brandOf(batch[l].raw_name) ])
    /\ UNCHANGED bound

\* Create-or-fetch of the canonical product of listing l and the bind, as one
\* atomic operation: the writer that finds the product adopts its id.
createOrFetch(l) ==
    LET name == normalize(batch[l].raw_name)
        c == existingProduct(batch[l].category, name)
    IN  IF c # 0
        THEN /\ bound' = [bound EXCEPT ![l] = [product |-> c, via |-> "adopted"]]
             /\ UNCHANGED catalog
        ELSE /\ catalog' = Append(catalog,
                    [ id            |-> Len(catalog) + 1,
                      category      |-> batch[l].category,
                      canonicalName |-> name,
                      brand         |-> brandOf(batch[l].raw_name) ])
             /\ bound' = [bound EXCEPT ![l] = [product |-> Len(catalog) + 1, via |-> "created"]]

storeVars == <<table, resp, aiVars, call, conn, ui>>

\* A worker takes an unprocessed listing, reads the roster of canonical
\* products and matches: guard, score, best candidate.
Match(w) ==
    /\ work[w] = NoWork
    /\ \E l \in 1..Len(batch) :
        /\ lstate[l] = "Unprocessed"
        /\ \A v \in 1..NumWorkers : work[v].listing # l
        /\ LET cands == eligible(batch[l].raw_name)
           IN  IF cands = {}
               THEN work' = [work EXCEPT ![w] = [listing |-> l, candidate |-> 0, score |-> 0]]
               ELSE \E sc \in scoreChoices(normalize(batch[l].raw_name), cands) :
                        LET c == best(cands, sc)
                        IN  work' = [work EXCEPT ![w] =
                                        [listing |-> l, candidate |-> c, score |-> sc[c]]]
    /\ UNCHANGED <<batch, catalog, lstate, bound, storeVars>>

\* The listing leaves Unprocessed by the transition its best score selects.
Apply(w) ==
    /\ work[w] # NoWork
    /\ lstate[work[w].listing] = "Unprocessed"
    /\ LET l == work[w].listing
           t == transition(work[w].score)
       IN  \/ /\ t = "AutoMatched"
              /\ bound' = [bound EXCEPT ![l] = [product |-> work[w].candidate, via |-> "auto"]]
              /\ lstate' = [lstate EXCEPT ![l] = "AutoMatched"]
              /\ UNCHANGED <<catalog, work>>
           \/ /\ t = "Escalated"
              /\ lstate' = [lstate EXCEPT ![l] = "Escalated"]
              /\ UNCHANGED <<catalog, bound, work>>
           \/ /\ t = "New"
              /\ createOrFetch(l)
              /\ lstate' = [lstate EXCEPT ![l] = "Resolved"]
              /\ work' = [work EXCEPT ![w] = NoWork]
    /\ UNCHANGED <<batch, storeVars>>

\* An auto-matched listing is resolved.
Settle(w) ==
    /\ work[w] # NoWork
    /\ lstate[work[w].listing] = "AutoMatched"
    /\ lstate' = [lstate EXCEPT ![work[w].listing] = "Resolved"]
    /\ work' = [work EXCEPT ![w] = NoWork]
    /\ UNCHANGED <<batch, catalog, bound, storeVars>>

\* The secondary classifier answers for an escalated listing: the shortlisted
\* product, or "new product".
ClassifierAnswers(w) ==
    /\ work[w] # NoWork
    /\ lstate[work[w].listing] = "Escalated"
    /\ LET l == work[w].listing
       IN  \/ /\ bound' = [bound EXCEPT ![l] =
                              [product |-> work[w].candidate, via |-> "classifier"]]
              /\ UNCHANGED catalog
           \/ createOrFetch(l)
    /\ lstate' = [lstate EXCEPT ![work[w].listing] = "Resolved"]
    /\ work' = [work EXCEPT ![w] = NoWork]
    /\ UNCHANGED <<batch, storeVars>>

\* The secondary classifier fails (timeout, error, low confidence): fallback
\* to a new canonical product.
ClassifierFails(w) ==
    /\ work[w] # NoWork
    /\ lstate[work[w].listing] = "Escalated"
    /\ createOrFetch(work[w].listing)
    /\ lstate' = [lstate EXCEPT ![work[w].listing] = "Resolved"]
    /\ work' = [work EXCEPT ![w] = NoWork]
    /\ UNCHANGED <<batch, storeVars>>

\* The listings of a batch and the products known before it
EngineListings ==
    { [raw_name |-> nRyzen5600, category |-> "CPU"],
      [raw_name |-> nAmdRyzen5600Processor, category |-> "CPU"],
      [raw_name |-> join(<<wRyzen, w5, w5600, wProcessor>>), category |-> "CPU"],
      [raw_name |-> join(<<wNVIDIA, wRTX, w4070>>), category |-> "GPU"] }

SeedCatalog ==
    << [ id |-> 1, category |-> "CPU", brand |-> bIntel,
         canonicalName |-> normalize(join(<<wIntel, wCore, wI5>>)) ],
       [ id |-> 2, category |-> "GPU", brand |-> bNVIDIA,
         canonicalName |-> normalize(join(<<wNVIDIA, wRTX, w4070>>)) ],
       [ id |-> 3, category |-> "CPU", brand |-> bAMD,
         canonicalName |-> normalize(nRyzen7700X) ] >>

InitEngine ==
    /\ InitIdle
    /\ batch \in [1..MaxListings -> EngineListings]
    /\ catalog = SeedCatalog
    /\ lstate = [l \in 1..MaxListings |-> "Unprocessed"]
    /\ bound = [l \in 1..MaxListings |-> Unbound]
    /\ work = [w \in 1..NumWorkers |-> NoWork]

NextEngine ==
    \E w \in 1..NumWorkers :
        \/ Match(w)
        \/ Apply(w)
        \/ Settle(w)
        \/ ClassifierAnswers(w)
        \/ ClassifierFails(w)

SpecEngine == InitEngine /\ [][NextEngine]_vars

-----------------------------------------------------------------------------
(* Properties of the Reconciliation Engine *)

engineKey(l) == <<batch[l].category, normalize(batch[l].raw_name)>>
productKey(c) == <<catalog[c].category, catalog[c].canonicalName>>
NewProductVia == {"created", "adopted"}

\* C3: at most one canonical product exists for a (category, canonicalName),
\* whatever the interleaving of the workers: no two products of the catalog
\* share the pair, a listing resolved as a new product is bound to the
\* product of its own pair, and hence two listings of the same new SKU end
\* bound to the same product.
C3_AtMostOneCreation ==
    /\ \A c, d \in 1..Len(catalog) : productKey(c) = productKey(d) => c = d
    /\ \A l \in 1..Len(batch) :
          bound[l].via \in NewProductVia =>
              /\ bound[l].product \in 1..Len(catalog)
              /\ productKey(bound[l].product) = engineKey(l)
    /\ \A l, m \in 1..Len(batch) :
          /\ bound[l].via \in NewProductVia
          /\ bound[m].via \in NewProductVia
          /\ engineKey(l) = engineKey(m)
          => bound[l].product = bound[m].product

\* Two listings of one new SKU were resolved concurrently: the first writer
\* created the product and the second, which had matched before the product
\* existed, adopted its id.
C3_LoserAdoptsWinner ==
    \E l, m \in 1..Len(batch) :
        /\ l # m
        /\ bound[l].via = "created"
        /\ bound[m].via = "adopted"
        /\ bound[l].product = bound[m].product
        /\ lstate[l] = "Resolved" /\ lstate[m] = "Resolved"

workerOf(l) == CHOOSE w \in 1..NumWorkers : work[w].listing = l

\* C4: a listing takes exactly one transition out of Unprocessed, fixed by the
\* best Matcher score s: s >= 0.95 binds it to the matched product
\* (AutoMatched), 0.60 <= s < 0.95 escalates it and binds nothing, s < 0.60
\* binds it to the canonical product of its normalized token (Resolved); once
\* it has left Unprocessed it never returns.
C4_TransitionByScore ==
    [][\A l \in 1..Len(batch) :
          /\ lstate[l] # "Unprocessed" => lstate'[l] # "Unprocessed"
          /\ (lstate[l] = "Unprocessed" /\ lstate'[l] # "Unprocessed") =>
                /\ \E w \in 1..NumWorkers : work[w].listing = l
                /\ LET s == work[workerOf(l)].score
                       c == work[workerOf(l)].candidate
                   IN  /\ s >= 95 =>
                            /\ lstate'[l] = "AutoMatched"
                            /\ bound'[l].product = c /\ c # 0
                            /\ catalog' = catalog
                       /\ (s >= 60 /\ s < 95) =>
                            /\ lstate'[l] = "Escalated"
                            /\ bound'[l] = Unbound
                            /\ catalog' = catalog
                       /\ s < 60 =>
                            /\ lstate'[l] = "Resolved"
                            /\ bound'[l].via \in NewProductVia
                            /\ bound'[l].product \in 1..Len(catalog')
                            /\ catalog'[bound'[l].product].canonicalName
                                  = normalize(batch[l].raw_name)
                            /\ catalog'[bound'[l].product].category = batch[l].category
    ]_vars

\* Both thresholds were met exactly: one listing was auto-matched on a score
\* of 0.95 while another was escalated on a score of 0.60.
C4_BothThresholdsMet ==
    \E v, w \in 1..NumWorkers :
        /\ work[v] # NoWork /\ work[w] # NoWork
        /\ work[v].score = 95 /\ lstate[work[v].listing] = "AutoMatched"
        /\ work[w].score = 60 /\ lstate[work[w].listing] = "Escalated"

\* match() never returns, for a raw name containing "NVIDIA", a product of
\* category CPU, RAM or Motherboard, nor an Intel product for a raw name
\* containing "Ryzen", whatever the scores are.
NvidiaCategoryGuard ==
    \A w \in 1..NumWorkers :
        (work[w] # NoWork /\ work[w].candidate # 0) =>
            LET raw == toLowerCase(batch[work[w].listing].raw_name)
                p == catalog[work[w].candidate]
            IN  /\ includes(raw, sNvidia) => p.category \notin GuardedCategories
                /\ includes(raw, sRyzen) => p.brand # bIntel

\* C10: the brand/category guard holds for every raw name: a name containing
\* "Ryzen" is assigned brand AMD and never Intel, and a name containing
\* "NVIDIA" is never matched to a product of category CPU, RAM or Motherboard.
C10_BrandCategoryGuard ==
    /\ RyzenIsAmd
    /\ NvidiaCategoryGuard

-----------------------------------------------------------------------------
(* The Candidate Matcher as a pure operation *)

\* match() found no confident match
None == [candidateProductId |-> 0, score |-> 0, method |-> "none"]

\* Mutant: a candidate must score strictly above the floor.
matchAboveFloor(rawName, sc) ==
    LET cands == eligible(rawName)
    IN  IF cands = {} THEN None
        ELSE LET c == best(cands, sc)
             IN  IF sc[c] > FLOOR
                 THEN [candidateProductId |-> c, score |-> sc[c], method |-> "fuzzy"]
                 ELSE None

\* match(): guard, score, best candidate; None when the best candidate scores
\* below the floor, which the Engine's transitions put at [0.60, 0.95) for an
\* escalation
match(rawName, sc) ==
    LET cands == eligible(rawName)
    IN  IF cands = {} THEN None
        ELSE LET c == best(cands, sc)
             IN  IF sc[c] >= FLOOR
                 THEN [candidateProductId |-> c, score |-> sc[c], method |-> "fuzzy"]
                 ELSE None

\* What the caller of match() does with its result
caller(decision) ==
    IF decision = None THEN "New" ELSE transition(decision.score)

\* The raw names match() is called with
MatcherNames == {l.raw_name : l \in EngineListings}

\* One call of match() against the current roster, with the scores the
\* similarity metric gave the candidates.
CallMatch ==
    /\ call = NoCall
    /\ \E rawName \in MatcherNames :
         \E sc \in scoreChoices(normalize(rawName), eligible(rawName)) :
            call' = [ op      |-> "match",
                      rawName |-> rawName,
                      scores  |-> sc,
                      result  |-> match(rawName, sc),
                      caller  |-> caller(match(rawName, sc)) ]
    /\ UNCHANGED <<table, resp, aiVars, batch, catalog, lstate, bound, work, conn, ui>>

\* The raw names normalize() is called with
wProcessorTM == <<"P","r","o","c","e","s","s","o","r","(TM)">>
wBOX == <<"B","O","X">>
wRyzenTM == <<"R","y","z","e","n","(TM)">>
NormalizerNames ==
    MatcherNames \cup
    { <<>>, <<" ", " ">>, wProcessor, tEmpty,
      join(<<wAMD, <<>>, wRyzenTM, w5, w5600, wBOX>>),
      join(<<w5600, wProcessorTM, wRyzen>>),
      join(<<<<>>, wRyzen, w7, w7700X, <<>>>>) }

\* One call of normalize(), and one of normalize() on its result.
CallNormalize ==
    /\ call = NoCall
    /\ \E rawName \in NormalizerNames :
            call' = [ op      |-> "normalize",
                      rawName |-> rawName,
                      once    |-> normalize(rawName),
                      twice   |-> normalize(normalize(rawName)) ]
    /\ UNCHANGED <<table, resp, aiVars, batch, catalog, lstate, bound, work, conn, ui>>

\* The number of AutoMatched listings of a batch whose listings have the best
\* scores s, under the high-confidence threshold high
autoMatched(s, high) ==
    Cardinality({l \in DOMAIN s : transitionAt(s[l], high) = "AutoMatched"})

\* The values the high-confidence threshold is configured to
Highs == {90, 95, 96}

\* One batch with fixed best scores, resolved under two thresholds.
CallThresholds ==
    /\ call = NoCall
    /\ \E s \in [1..MaxListings -> Scores \cup {100}] :
         \E lo \in Highs : \E hi \in {h \in Highs : h >= lo} :
            call' = [ op     |-> "thresholds",
                      scores |-> s,
                      lo     |-> lo,
                      hi     |-> hi,
                      atLo   |-> autoMatched(s, lo),
                      atHi   |-> autoMatched(s, hi) ]
    /\ UNCHANGED <<table, resp, aiVars, batch, catalog, lstate, bound, work, conn, ui>>

\* The fallback prediction of predictWithAI: the raw name, confidence 0.1
fallbackResult(rawName) ==
    [ predicted_standard_name |-> rawName, confidence |-> 10, raw_name |-> rawName ]

resolve(value) == [ settled |-> "resolved", value |-> value ]
reject(reason) == [ settled |-> "rejected", value |-> reason ]

\* The lines the predictor process prints.  A line is what the close handler
\* asks of it: whether its trimmed text starts with "{", whether it includes
\* "type" in quotes, and what JSON.parse makes of it (a SyntaxError when it is
\* not JSON).
NoResult == [ predicted_standard_name |-> <<>>, confidence |-> 0, raw_name |-> <<>> ]
SyntaxError == [ throws |-> TRUE, type |-> "", result |-> NoResult ]
debugLine == [ startsBrace |-> FALSE, includesType |-> TRUE,  parsed |-> SyntaxError ]
braceLine == [ startsBrace |-> TRUE,  includesType |-> FALSE, parsed |-> SyntaxError ]
brokenLine == [ startsBrace |-> TRUE,  includesType |-> TRUE,  parsed |-> SyntaxError ]
errorLine == [ startsBrace |-> TRUE,  includesType |-> TRUE,
                parsed |-> [ throws |-> FALSE, type |-> "error", result |-> NoResult ] ]
resultLine == [ startsBrace |-> TRUE,  includesType |-> TRUE,
                parsed |-> [ throws |-> FALSE,
                             type   |-> "prediction",
                             result |-> [ predicted_standard_name |-> nAmdRyzen5600,
                                          confidence |-> 90,
                                          raw_name |-> nRyzen5600 ] ] ]
OutputLines == {debugLine, braceLine, brokenLine, errorLine, resultLine}

\* "Find the last line that looks like JSON": its index in lines, 0 if none
looksLikeJson(line) == line.startsBrace /\ line.includesType
jsonLine(lines) ==
    LET found == {i \in 1..Len(lines) : looksLikeJson(lines[i])}
    IN  IF found = {} THEN 0 ELSE CHOOSE i \in found : \A j \in found : j <= i

\* Mutant: a JSON parse error rejects the promise.
predictWithAIRejects(rawName, code, lines) ==
    IF code # 0 THEN resolve(fallbackResult(rawName))
    ELSE IF jsonLine(lines) = 0 THEN resolve(fallbackResult(rawName))
    ELSE LET result == lines[jsonLine(lines)].parsed
         IN  IF result.throws THEN reject("parseError")
             ELSE IF result.type = "error" THEN resolve(fallbackResult(rawName))
             ELSE resolve(result.result)

\* predictWithAI: what the promise settles with when the predictor process
\* closes with exit code code (NullNum when a signal ended it) after printing
\* lines
predictWithAI(rawName, code, lines) ==
    IF code # 0 THEN resolve(fallbackResult(rawName))
    ELSE IF jsonLine(lines) = 0 THEN resolve(fallbackResult(rawName))
    ELSE LET result == lines[jsonLine(lines)].parsed
         IN  IF result.throws THEN resolve(fallbackResult(rawName))
             ELSE IF result.type = "error" THEN resolve(fallbackResult(rawName))
             ELSE resolve(result.result)

\* The exit codes of the predictor process and what it prints
ExitCodes == {0, 1, NullNum}
MaxOutputLines == 2
Outputs == UNION {[1..n -> OutputLines] : n \in 0..MaxOutputLines}

\* One call of predictWithAI whose process has closed.
CallPredictWithAI ==
    /\ call = NoCall
    /\ \E rawName \in {nRyzen5600, nRyzen7700} : \E code \in ExitCodes :
         \E lines \in Outputs :
            call' = [ op      |-> "predictWithAI",
                      rawName |-> rawName,
                      code    |-> code,
                      lines   |-> lines,
                      result  |-> predictWithAI(rawName, code, lines) ]
    /\ UNCHANGED <<table, resp, aiVars, batch, catalog, lstate, bound, work, conn, ui>>

\* A roster with some listings already mapped
InitPure ==
    /\ InitIdle
    /\ batch = [l \in 1..MaxListings |-> [raw_name |-> nRyzen5600, category |-> "CPU"]]
    /\ catalog = SeedCatalog
    /\ bound \in [1..MaxListings ->
                    {Unbound} \cup {[product |-> c, via |-> "auto"] : c \in eligible(nRyzen5600)}]
    /\ lstate = [l \in 1..MaxListings |->
                    IF bound[l] = Unbound THEN "Unprocessed" ELSE "Resolved"]
    /\ work = [w \in 1..NumWorkers |-> NoWork]

NextPure ==
    \/ CallMatch
    \/ CallNormalize
    \/ CallThresholds
    \/ CallPredictWithAI

SpecPure == InitPure /\ [][NextPure]_vars

-----------------------------------------------------------------------------
(* Properties of the Candidate Matcher *)

matchCalled == call.op = "match"
candidatesOf(c) == DOMAIN c.scores

C17_HighestScoreThenMostMapped ==
    (matchCalled /\ call.result # None) =>
        \A d \in candidatesOf(call) :
            LET c == call.result.candidateProductId
            IN  /\ call.scores[c] >= call.scores[d]
                /\ call.scores[c] = call.scores[d] => mapped(c) >= mapped(d)

\* Two candidates tied on the best score, the younger one had more mapped
\* listings, and match() returned it.
C17_TieBrokenByMapped ==
    /\ matchCalled
    /\ call.result # None
    /\ \E d \in candidatesOf(call) :
          /\ d < call.result.candidateProductId
          /\ call.scores[d] = call.result.score
          /\ mapped(d) < mapped(call.result.candidateProductId)

-----------------------------------------------------------------------------
(* Properties of the Normalizer and of the thresholds *)

\* C18: normalization is idempotent: normalize(normalize(x)) = normalize(x)
\* for every raw name x.
C18_NormalizeIdempotent ==
    call.op = "normalize" => call.twice = call.once

\* A name with upper case, a trade mark sign, doubled white space and a
\* boilerplate token was normalized to a token that differs from it.
C18_NormalizeChangedName ==
    /\ call.op = "normalize"
    /\ call.rawName = join(<<wAMD, <<>>, wRyzenTM, w5, w5600, wBOX>>)
    /\ call.once = join(<<toLowerCase(wAMD), toLowerCase(wRyzen), w5, w5600>>)
    /\ call.twice = call.once

\* C16: for a fixed batch and fixed candidate scores, raising the
\* high-confidence threshold never increases the number of AutoMatched
\* listings.
C16_ThresholdMonotone ==
    (call.op = "thresholds" /\ call.lo <= call.hi) => call.atHi <= call.atLo

\* A threshold was raised and a listing that was AutoMatched no longer is.
C16_RaisedThresholdDropsMatch ==
    /\ call.op = "thresholds"
    /\ call.lo < call.hi
    /\ call.atHi < call.atLo
    /\ call.atHi > 0

-----------------------------------------------------------------------------
(* Properties of the aggregates of a product without prices *)

StatisticsRoutes == {"ai-products-pg", "cpu-products-universal", "cpu-products/[id]"}

\* C12: a canonical product with no listing of price > 0 gets no numeric
\* statistics: a response never holds a product whose set of listings with
\* price > 0 is empty, and the product route answers such a product with its
\* no-data response (404) and no product.
C12_NoStatisticsWithoutPrices ==
    resp.route \in StatisticsRoutes =>
        /\ \A i \in 1..Len(resp.products) :
              \E k \in listingsOf(resp, resp.products[i]) : pricePositive(table[k])
        /\ (resp.route = "cpu-products/[id]"
              /\ ~ \E k \in 1..resp.rows :
                      table[k].standard_name = nAmdRyzen5600 /\ pricePositive(table[k]))
           => (resp.status = 404 /\ resp.products = <<>>)

-----------------------------------------------------------------------------
(* Properties of listings without a name *)

\* C13: an empty or white-space-only raw name is rejected before matching: no
\* product of a grouping response is matched to, or created from, a listing
\* whose raw name is empty or white space only.
C13_BlankNameRejected ==
    resp.route \in GroupingRoutes =>
        \A g \in 1..Len(resp.products) :
            \A e \in 1..Len(resp.products[g].price_entries) :
                ~ trimIsEmpty(resp.products[g].price_entries[e].raw_name)

-----------------------------------------------------------------------------
(* Properties of a run whose storage fails *)

\* C14: a storage failure fails one item of the batch only: when a run answers
\* after a storage failure, every priced listing of the store but the one
\* failed item is still processed, that is, bound in a product of the answer.
C14_StorageFailureCostsOneItem ==
    [][(resp' # resp /\ resp'.route = "ai-products" /\ resp'.status = 500) =>
          \E failed \in 0..Len(table) :
              \A k \in 1..Len(table) :
                  (k # failed /\ pricePositive(table[k]))
                      => bindings(resp', table[k].id) # {}
      ]_vars

-----------------------------------------------------------------------------
(* Properties of a stopped batch run *)

processed(l) == lstate[l] \in {"AutoMatched", "Resolved"}

\* C15: wherever a batch run is stopped, the state is consistent: a processed
\* listing is bound to one canonical product, which exists; a listing not yet
\* processed is bound to none; and no product was created without the listing
\* it was created for being bound to it.
C15_StoppedRunIsConsistent ==
    /\ \A l \in 1..Len(batch) :
          /\ processed(l) => bound[l].product \in 1..Len(catalog)
          /\ ~ processed(l) => bound[l] = Unbound
    /\ \A c \in 1..Len(catalog) :
          c > Len(SeedCatalog) =>
              \E l \in 1..Len(batch) :
                  /\ bound[l] = [product |-> c, via |-> "created"]
                  /\ productKey(c) = engineKey(l)

\* The run stands between two listings: one listing was resolved to a product
\* created for it, another is unprocessed, and no worker holds a listing.
C15_StoppedBetweenListings ==
    /\ \E l, m \in 1..Len(batch) :
          /\ bound[l].via = "created"
          /\ lstate[l] = "Resolved"
          /\ lstate[m] = "Unprocessed"
    /\ \A w \in 1..NumWorkers : work[w] = NoWork

-----------------------------------------------------------------------------
(* Listing with a search text *)

\* productsQuery of the ai-products-simple route: the search parameter is
\* read and never used; only priced rows are grouped.
productsQuerySimple(rows, limit, offset) ==
    LET a == SelectSeq(rows, pricePositive)
        keys == groupKeys(a, <<>>)
        g == [k \in 1..Len(keys) |-> sqlAggregate(a, keys[k])]
        sorted == StableSort(g, [j \in 1..Len(g), k \in 1..Len(g) |-> sqlOrderLess(g[j], g[k])])
    IN  SubSeq(sorted, Max(offset, 0) + 1, Min(offset + limit, Len(sorted)))

\* countQuery: SELECT COUNT(DISTINCT standard_name) ... WHERE price_bdt > 0
countQuerySimple(rows) ==
    LET a == SelectSeq(rows, pricePositive)
    IN  Cardinality({a[k].standard_name : k \in 1..Len(a)} \ {NullStr})

\* The ai-products-simple route (GET)
aiProductsSimple(rows, search, brand, page, limit) ==
    LET total == countQuerySimple(rows)
    IN  [ route      |-> "ai-products-simple",
          status     |-> 200,
          products   |-> productsQuerySimple(rows, limit, (page - 1) * limit),
          total      |-> total,
          page       |-> page,
          limit      |-> limit,
          totalPages |-> totalPages(total, limit),
          fetched    |-> SelectSeq(rows, pricePositive),
          rows       |-> Len(rows) ]

\* Rows of three products: two listings of the 5600 and one of the 7700X,
\* resolved upstream to their standard names, and one unresolved 7700
SearchTemplates ==
    { [raw_name |-> nRyzen5600, standard_name |-> nAmdRyzen5600],
      [raw_name |-> nAmdRyzen5600Processor, standard_name |-> nAmdRyzen5600],
      [raw_name |-> nAmdRyzen7700X, standard_name |-> nAmdRyzen7700X],
      [raw_name |-> nRyzen7700, standard_name |-> NullStr] }

\* The texts searched for, and the page sizes asked for
SearchTexts == {w5600, toLowerCase(w7700X), toLowerCase(wProcessor)}
PageSizes == {1, DefaultLimitPg}

IngestSearchListing ==
    \E t \in SearchTemplates :
        Ingest(t.standard_name, NullStr, vendorOf(t.raw_name), t.raw_name,
               vendorPrice(vendorOf(t.raw_name)))

searchRequest(route, search, limit) ==
    [op |-> "search", route |-> route, search |-> search, page |-> DefaultPage,
     limit |-> limit]

\* GET /api/ai-products-pg?search=...&limit=...
SearchAiProductsPg ==
    /\ \E search \in SearchTexts, limit \in PageSizes :
          /\ resp' = aiProductsPg(table, search, NullStr, DefaultPage, limit)
          /\ call' = searchRequest("ai-products-pg", search, limit)
    /\ UNCHANGED <<table, aiVars, batch, catalog, lstate, bound, work, conn, ui>>

\* GET /api/cpu-products-universal?search=...&limit=...
SearchCpuProductsUniversal ==
    /\ \E search \in SearchTexts, limit \in PageSizes :
          /\ resp' = cpuProductsUniversal(table, search, NullStr, DefaultPage, limit)
          /\ call' = searchRequest("cpu-products-universal", search, limit)
    /\ UNCHANGED <<table, aiVars, batch, catalog, lstate, bound, work, conn, ui>>

\* GET /api/ai-products-simple?search=...&limit=...
SearchAiProductsSimple ==
    /\ \E search \in SearchTexts, limit \in PageSizes :
          /\ resp' = aiProductsSimple(table, search, <<>>, DefaultPage, limit)
          /\ call' = searchRequest("ai-products-simple", search, limit)
    /\ UNCHANGED <<table, aiVars, batch, catalog, lstate, bound, work, conn, ui>>

NextSearch ==
    \/ IngestSearchListing
    \/ SearchAiProductsPg
    \/ SearchCpuProductsUniversal
    \/ SearchAiProductsSimple

SpecSearch == Init /\ [][NextSearch]_vars

-----------------------------------------------------------------------------
(* Properties of the search *)

\* The table as it was when response r was built
tableOf(r) == SubSeq(table, 1, r.rows)

\* The products of the route of r when no text is searched for, all on one page
unfiltered(r) ==
    IF r.route = "ai-products-pg"
    THEN aiProductsPg(tableOf(r), NullStr, NullStr, 1, MaxRows).products
    ELSE IF r.route = "cpu-products-universal"
    THEN cpuProductsUniversal(tableOf(r), NullStr, NullStr, 1, MaxRows).products
    ELSE aiProductsSimple(tableOf(r), <<>>, <<>>, 1, MaxRows).products

\* The text matches the canonical name of product g of r or one of the raw
\* names of its listings
matchesText(r, g, text) ==
    \/ g.standard_name # NullStr
         /\ includes(toLowerCase(g.standard_name), toLowerCase(text))
    \/ \E k \in listingsOf(r, g) :
         includes(toLowerCase(table[k].raw_name), toLowerCase(text))

matching(r, products, text) ==
    {g \in 1..Len(products) : matchesText(r, products[g], text)}

\* C19: listing with a search text returns the products whose canonical name
\* or one of whose raw names matches the text: the filtered set counts
\* exactly the matching products, and the page of the response holds as many
\* matching products as the page size allows, so no matching product is
\* omitted.
C19_SearchReturnsMatchingProducts ==
    (call.op = "search" /\ resp.route = call.route) =>
        LET all == Cardinality(matching(resp, unfiltered(resp), call.search))
        IN  /\ resp.total = all
            /\ Cardinality(matching(resp, resp.products, call.search))
                  = Min(call.limit, all)

-----------------------------------------------------------------------------
(* Properties of the 30 s deadline *)

deadlineAnswered ==
    /\ aiPc = "idle"
    /\ Len(aiOutcome) > 0
    /\ aiOutcome[Len(aiOutcome)] = "deadline"

firstThreeWords(rawName) == join(slice(split(rawName), 3))

-----------------------------------------------------------------------------
(* Properties of predictWithAI *)

predictCalled == call.op = "predictWithAI"

\* The four failures of the predictor: exit code not 0, no JSON line, JSON
\* that does not parse, type "error"
predictorFailed ==
    \/ call.code # 0
    \/ jsonLine(call.lines) = 0
    \/ call.lines[jsonLine(call.lines)].parsed.throws
    \/ call.lines[jsonLine(call.lines)].parsed.type = "error"

\* C21: when the predictor process exits with a non-zero code, prints no JSON
\* line, prints unparsable JSON, or reports type "error", predictWithAI
\* resolves (never rejects) with predicted_standard_name equal to the raw name
\* and confidence 0.1.
C21_FallbackPredictionOnFailure ==
    (predictCalled /\ predictorFailed) =>
        /\ call.result.settled = "resolved"
        /\ call.result.value.predicted_standard_name = call.rawName
        /\ call.result.value.confidence = 10

\* The process exited with code 0 and its last JSON-looking line, printed after
\* a well-formed result line, did not parse: the fallback prediction came back.
C21_UnparsableJsonFellBack ==
    /\ predictCalled
    /\ call.code = 0
    /\ call.lines = <<resultLine, brokenLine>>
    /\ call.result = resolve(fallbackResult(call.rawName))


-----------------------------------------------------------------------------
(* Route handlers and the database adapter *)

\* DatabaseAdapter's constructor: PostgreSQL iff NODE_ENV is production and
\* DATABASE_URL is set
isPostgres(NODE_ENV, DATABASE_URL) == NODE_ENV = "production" /\ DATABASE_URL

\* The routes that open a connection per request.  "cpu-products-sqlite"
\* opens the SQLite file itself; the others go through getDatabase().
AdapterRoutes == {"cpu-products-universal", "ai-products-pg", "cpu-products",
                  "cpu-products/[id]"}
DbRoutes == AdapterRoutes \cup {"cpu-products-sqlite"}

\* The backend a route's connection is to
backend(route, postgres) ==
    IF route \in AdapterRoutes /\ postgres THEN "PostgreSQL" ELSE "SQLite"

\* A query is its name, the placeholder style of its text ("?" or "$n", "none"
\* when it has no parameter) and the dialect-specific SQL functions it uses.
Query(name, placeholders, functions) ==
    [ name |-> name, placeholders |-> placeholders, functions |-> functions ]

\* The style and the functions of whereClause, for a route that writes
\* placeholders in the style style and searches with the operator like
whereStyle(search, brand, style) == IF search \/ brand THEN style ELSE "none"
whereFunctions(search, like) == IF search THEN {like} ELSE {}

\* The queries each GET sends after it has connected, in order, up to the
\* first whose result decides what comes next
universalQueries(search, brand) ==
    << Query("productsQuery", "?", whereFunctions(search, "LIKE") \cup {"GROUP_CONCAT"}),
       Query("countQuery", whereStyle(search, brand, "?"), whereFunctions(search, "LIKE")),
       Query("brandsQuery", "none", {}) >>

pgQueries(search, brand) ==
    << Query("allProductsQuery", whereStyle(search, brand, "$n"),
             whereFunctions(search, "ILIKE")) >>

cpuProductsQueries(search, brand) ==
    << Query("countQuery", whereStyle(search, brand, "$n"), whereFunctions(search, "ILIKE")),
       Query("productsQuery", "$n", whereFunctions(search, "ILIKE") \cup {"STRING_AGG"}) >>

sqliteQueries(search, brand) ==
    << Query("countQuery", whereStyle(search, brand, "?"), whereFunctions(search, "LIKE")),
       Query("productsQuery", "?", whereFunctions(search, "LIKE") \cup {"GROUP_CONCAT"}) >>

priceEntriesQuery(style) == Query("priceEntriesQuery", style, {})
brandStatsQuery == Query("brandStatsQuery", "none", {})
productQuery == Query("productQuery", "$n", {"STRING_AGG"})
productQueryByRawName == Query("productQueryByRawName", "$n", {"STRING_AGG"})

firstQueries(route, search, brand) ==
    CASE route = "cpu-products-universal" -> universalQueries(search, brand)
      [] route = "ai-products-pg"         -> pgQueries(search, brand)
      [] route = "cpu-products"           -> cpuProductsQueries(search, brand)
      [] route = "cpu-products-sqlite"    -> sqliteQueries(search, brand)
      [] route = "cpu-products/[id]"      -> << productQuery >>

\* The queries a GET goes on with once query q has answered with rows (found)
\* or with none
nextQueries(route, q, found) ==
    CASE route \in {"cpu-products", "cpu-products-sqlite"} /\ q.name = "productsQuery" ->
            (IF found THEN << priceEntriesQuery(IF route = "cpu-products" THEN "$n" ELSE "?") >>
                      ELSE << >>) \o << brandStatsQuery >>
      [] route = "cpu-products/[id]" /\ q.name = "productQuery" ->
            IF found THEN << priceEntriesQuery("$n") >> ELSE << productQueryByRawName >>
      [] route = "cpu-products/[id]" /\ q.name = "productQueryByRawName" ->
            IF found THEN << priceEntriesQuery("$n") >> ELSE << >>
      [] OTHER -> << >>

\* "Product not found": both product queries of the detail route found nothing
notFound(route, q, found) ==
    route = "cpu-products/[id]" /\ q.name = "productQueryByRawName" /\ ~found

\* The placeholder style and the SQL functions of each backend
placeholderStyle(b) == IF b = "PostgreSQL" THEN "$n" ELSE "?"
sqlFunctions(b) ==
    IF b = "PostgreSQL" THEN {"LIKE", "ILIKE", "STRING_AGG"} ELSE {"LIKE", "GROUP_CONCAT"}
inDialect(b, q) ==
    /\ q.placeholders \in {"none", placeholderStyle(b)}
    /\ q.functions \subseteq sqlFunctions(b)

\* client.query / client.all reject a text the backend cannot run: PostgreSQL
\* a "?" or GROUP_CONCAT, SQLite an ILIKE or a STRING_AGG(DISTINCT x, ',')
\* (it binds an array to "$1", "$2" in order)
rejects(b, q) ==
    IF b = "PostgreSQL" THEN ~inDialect(b, q)
    ELSE ~(q.functions \subseteq sqlFunctions(b))

\* What the catch block of every GET answers
caught(c) == [ c EXCEPT !.pc = "returned", !.status = 500, !.pending = << >> ]

\* A request arrives: GET reads its parameters and calls getDatabase().
DbRequest ==
    /\ conn.pc \in {"idle", "returned"}
    /\ \E route \in DbRoutes : \E env \in {"production", "development"} :
         \E url, search, brand \in BOOLEAN :
            conn' = [ pc |-> "connecting", route |-> route, NODE_ENV |-> env,
                      DATABASE_URL |-> url, search |-> search, brand |-> brand,
                      isPostgres |-> isPostgres(env, url),
                      open |-> 0, pending |-> << >>, sent |-> << >>, status |-> 0 ]
    /\ UNCHANGED <<table, resp, aiVars, batch, catalog, lstate, bound, work, call, ui>>

\* connect() succeeds: the connection is open and GET builds its queries.
DbConnect ==
    /\ conn.pc = "connecting"
    /\ conn' = [ conn EXCEPT !.pc = "running", !.open = 1,
                   !.pending = firstQueries(conn.route, conn.search, conn.brand) ]
    /\ UNCHANGED <<table, resp, aiVars, batch, catalog, lstate, bound, work, call, ui>>

\* connect() throws: no connection, GET answers from its catch block.
DbConnectFails ==
    /\ conn.pc = "connecting"
    /\ conn' = caught(conn)
    /\ UNCHANGED <<table, resp, aiVars, batch, catalog, lstate, bound, work, call, ui>>

\* GET sends its next query.  The backend rejects a text it cannot run and GET
\* answers from its catch block; otherwise the query answers with rows or with
\* none and GET goes on.
DbQuery ==
    /\ conn.pc = "running"
    /\ conn.pending # << >>
    /\ LET q == Head(conn.pending)
           b == backend(conn.route, conn.isPostgres)
           sent == [ conn EXCEPT !.sent = Append(@, q) ]
       IN  IF rejects(b, q)
           THEN conn' = caught(sent)
           ELSE \E found \in BOOLEAN :
                  conn' = [ sent EXCEPT
                              !.pending = Tail(@) \o nextQueries(conn.route, q, found),
                              !.status = IF notFound(conn.route, q, found) THEN 404 ELSE 200 ]
    /\ UNCHANGED <<table, resp, aiVars, batch, catalog, lstate, bound, work, call, ui>>

\* The backend fails on a query it could run (the connection drops, the table
\* is missing): GET answers from its catch block.
DbQueryFails ==
    /\ conn.pc = "running"
    /\ conn.pending # << >>
    /\ conn' = caught([ conn EXCEPT !.sent = Append(@, Head(conn.pending)) ])
    /\ UNCHANGED <<table, resp, aiVars, batch, catalog, lstate, bound, work, call, ui>>

\* All queries have answered: GET closes the connection and returns.
DbClose ==
    /\ conn.pc = "running"
    /\ conn.pending = << >>
    /\ conn' = [ conn EXCEPT !.pc = "returned", !.open = 0 ]
    /\ UNCHANGED <<table, resp, aiVars, batch, catalog, lstate, bound, work, call, ui>>

NextDb ==
    \/ DbRequest
    \/ DbConnect
    \/ DbConnectFails
    \/ DbQuery
    \/ DbQueryFails
    \/ DbClose

SpecDb == Init /\ [][NextDb]_vars

-----------------------------------------------------------------------------
(* Properties of the route handlers *)

\* C22: for whichever backend DatabaseAdapter selects, every query a route
\* sends through it uses the placeholder style and the SQL functions of that
\* backend.
C22_QueriesInBackendDialect ==
    conn.route \in AdapterRoutes =>
        \A i \in 1..Len(conn.sent) :
            inDialect(backend(conn.route, conn.isPostgres), conn.sent[i])

\* C26: every database connection a route handler opens is closed before the
\* handler returns, on every path: success, not-found, and an error thrown by
\* a query after the connection was opened.
C26_ConnectionClosedOnReturn ==
    conn.pc = "returned" => conn.open = 0


-----------------------------------------------------------------------------
(* Pagination of the listing routes *)

\* countQuery of the cpu-products route:
\* SELECT COUNT(DISTINCT standard_name) ... <whereClause>, no price filter
countQueryCpuProducts(rows, search, brand) ==
    LET keep(r) == whereClause(r, search, brand)
        a == SelectSeq(rows, keep)
    IN  Cardinality({a[k].standard_name : k \in 1..Len(a)} \ {NullStr})

\* priceEntriesQuery of the cpu-products route: the rows of one standard_name
\* with a positive price, ORDER BY price_bdt ASC
priceEntriesOf(rows, standard_name) ==
    LET keep(r) == r.standard_name = standard_name /\ pricePositive(r)
        a == SelectSeq(rows, keep)
        sorted == StableSort(a, [j \in 1..Len(a), k \in 1..Len(a) |-> priceLess(a[j], a[k])])
    IN  [k \in 1..Len(sorted) |-> priceEntry(sorted[k])]

\* productsQuery of the cpu-products route:
\* <whereClause> AND price_bdt IS NOT NULL AND price_bdt > 0
\* GROUP BY standard_name, brand ORDER BY vendor_count DESC, min_price ASC
\* LIMIT ? OFFSET ?, each product with its price entries
productsQueryCpuProducts(rows, search, brand, limit, skip) ==
    LET keep(r) == whereClause(r, search, brand) /\ pricePositive(r)
        a == SelectSeq(rows, keep)
        keys == groupKeys(a, <<>>)
        g == [k \in 1..Len(keys) |->
                [sqlAggregate(a, keys[k]) EXCEPT
                    !.price_entries = priceEntriesOf(rows, keys[k][1])]]
        sorted == StableSort(g, [j \in 1..Len(g), k \in 1..Len(g) |-> sqlOrderLess(g[j], g[k])])
    IN  SubSeq(sorted, Max(skip, 0) + 1, Min(skip + limit, Len(sorted)))

\* The cpu-products route (GET)
cpuProducts(rows, search, brand, page, limit) ==
    LET totalCount == countQueryCpuProducts(rows, search, brand)
    IN  [ route      |-> "cpu-products",
          status     |-> 200,
          products   |-> productsQueryCpuProducts(rows, search, brand, limit, (page - 1) * limit),
          total      |-> totalCount,
          page       |-> page,
          limit      |-> limit,
          totalPages |-> totalPages(totalCount, limit),
          fetched    |-> SelectSeq(rows, LAMBDA r : whereClause(r, search, brand)),
          rows       |-> Len(rows) ]

\* The listing routes that paginate, and what each answers
ListingRoutes == {"cpu-products", "cpu-products-universal", "ai-products-pg"}
listing(route, rows, page, limit) ==
    CASE route = "cpu-products"           -> cpuProducts(rows, NullStr, NullStr, page, limit)
      [] route = "cpu-products-universal" -> cpuProductsUniversal(rows, NullStr, NullStr, page, limit)
      [] route = "ai-products-pg"         -> aiProductsPg(rows, NullStr, NullStr, page, limit)

\* The product groups of pages 1..n of a route, concatenated
RECURSIVE concatPages(_, _, _, _)
concatPages(route, rows, n, limit) ==
    IF n = 0 THEN << >>
    ELSE concatPages(route, rows, n - 1, limit) \o listing(route, rows, n, limit).products

\* The pages and page sizes requested, the names of the listings in the table
MaxPage == 3
PageLimits == {1, 2, DefaultLimitUniversal}
PagedNames == {nAmdRyzen5600, nAmdRyzen7700}

\* The scraper feed appends a listing, with or without a price.
IngestPagedListing ==
    \E n \in PagedNames, p \in {NullNum, 18500} :
        Ingest(n, bAMD, vendorOf(n), n, p)

pageRequest(route, page, limit) ==
    [op |-> "page", route |-> route, page |-> page, limit |-> limit]

\* GET /api/<route>?page=...&limit=... with page >= 1 and limit >= 1
GetPage ==
    /\ \E route \in ListingRoutes, page \in 1..MaxPage, limit \in PageLimits :
          /\ resp' = listing(route, table, page, limit)
          /\ call' = pageRequest(route, page, limit)
    /\ UNCHANGED <<table, aiVars, batch, catalog, lstate, bound, work, conn, ui>>

NextPages ==
    \/ IngestPagedListing
    \/ GetPage

SpecPages == Init /\ [][NextPages]_vars

\* The last answer is a page of the table as it is now
pageAnswered == call.op = "page" /\ resp.rows = Len(table)

\* C23: for page >= 1 and limit >= 1, pagination.total equals the number of
\* product groups obtained by concatenating pages 1..totalPages, where
\* totalPages = ceil(total/limit).
C23_TotalIsLengthOfAllPages ==
    pageAnswered =>
        /\ resp.totalPages = totalPages(resp.total, resp.limit)
        /\ resp.total = Len(concatPages(call.route, table, resp.totalPages, call.limit))

\* The same for the ai-products-pg route alone, which counts the groups it
\* slices
C23_PgTotalIsLengthOfAllPages ==
    (pageAnswered /\ call.route = "ai-products-pg") =>
        resp.total = Len(concatPages(call.route, table, resp.totalPages, call.limit))


-----------------------------------------------------------------------------
(* The brand filter of the ai-products-pg route *)

wAthlon == <<"A","t","h","l","o","n">>
w3000G == <<"3","0","0","0","G">>
nAthlon3000G == join(<<wAthlon, w3000G>>)
nIntelCoreI5 == join(<<wIntel, wCore, wI5>>)

\* The listings of the branded table: standard name and stored brand
BrandedListings ==
    { [standard_name |-> nAmdRyzen5600, brand |-> bAMD],
      [standard_name |-> nRyzen5600,    brand |-> bAMD],
      [standard_name |-> nAthlon3000G,  brand |-> bAMD],
      [standard_name |-> nIntelCoreI5,  brand |-> bIntel] }

\* The scraper feed appends a listing with its stored brand.
IngestBrandedListing ==
    \E t \in BrandedListings, v \in Vendors :
        Ingest(t.standard_name, t.brand, v, t.standard_name, vendorPrice(v))

brandRequest(brand) == [op |-> "brand", brand |-> brand]

\* GET /api/ai-products-pg?brand=...
GetAiProductsPgBrand ==
    /\ \E brand \in {bAMD, bIntel} :
          /\ resp' = aiProductsPg(table, NullStr, brand, DefaultPage, DefaultLimitPg)
          /\ call' = brandRequest(brand)
    /\ UNCHANGED <<table, aiVars, batch, catalog, lstate, bound, work, conn, ui>>

NextBrand ==
    \/ IngestBrandedListing
    \/ GetAiProductsPgBrand

SpecBrand == Init /\ [][NextBrand]_vars

\* The groups built from the listings the stored-brand filter selected
selectedGroups(rows, brand) ==
    groupProductsByAI(allProductsQueryPg(rows, NullStr, brand))

returned(r, g) ==
    \E k \in 1..Len(r.products) : r.products[k].standard_name = g.standard_name

brandAnswered == call.op = "brand" /\ resp.rows = Len(table)

\* C27: in the grouped products endpoint with a brand filter B, every group
\* built from listings whose stored brand is B is returned; the brand
\* extractBrand derives from the group name removes none of them.
C27_BrandFilterKeepsSelectedGroups ==
    brandAnswered =>
        \A k \in 1..Len(selectedGroups(table, call.brand)) :
            returned(resp, selectedGroups(table, call.brand)[k])


-----------------------------------------------------------------------------
(* The product list components: AIProducts, CPUProducts, ProductsPage *)

serverVars == <<table, resp, aiVars, batch, catalog, lstate, bound, work, call, conn>>

\* The requests one page issues before it is left
MaxRequests == 4
MaxUiPage == 2

ListComponents == {"AIProducts", "CPUProducts"}
Components == ListComponents \cup {"ProductsPage"}

\* What the user types and selects
SearchInputs == {<<>>, w5600, w7700X}
BrandOptions == {<<>>, bAMD}

\* The query parameters of a request and the answer that shows them
Params(search, brand, page) == [ search |-> search, brand |-> brand, page |-> page ]
NoData == [ search |-> <<"?">>, brand |-> <<"?">>, page |-> 0 ]

\* The component after its first render: useEffect has called fetchProducts
\* with the initial state.
mounted(component) ==
    [ component     |-> component,
      searchTerm    |-> <<>>,
      selectedBrand |-> <<>>,
      currentPage   |-> 1,
      memoSearch    |-> <<>>,     \* the searchTerm the memoized fetchProducts closed over
      loading       |-> TRUE,
      error         |-> FALSE,
      data          |-> NoData,   \* the parameters of the answer on display
      inflight      |-> {[ id |-> 1, params |-> Params(<<>>, <<>>, 1) ]},
      issued        |-> 1,        \* the id of the most recently issued request
      last          |-> Params(<<>>, <<>>, 1),
      answered      |-> "none",   \* how the most recently issued request ended
      completed     |-> "none",   \* how the most recently completed request ended
      cleared       |-> FALSE ]   \* clearFilters was the last thing the user did

\* fetchProducts up to its await: setLoading(true) and the fetch is on its way
fetchProducts(u, search, brand, page) ==
    [ u EXCEPT !.loading  = TRUE,
               !.issued   = @ + 1,
               !.inflight = @ \cup {[ id |-> u.issued + 1, params |-> Params(search, brand, page) ]},
               !.last     = Params(search, brand, page),
               !.answered = "none" ]

\* fetchProducts after its await.  The list components set the products of an
\* answer and leave the state on an error; the products page sets data or
\* error; all set loading to false.  No state setter clears error.
settle(u, r, ok) ==
    [ u EXCEPT !.inflight  = @ \ {r},
               !.loading   = FALSE,
               !.data      = IF ok THEN r.params ELSE @,
               !.error     = IF ok THEN @ ELSE (@ \/ u.component = "ProductsPage"),
               !.answered  = IF r.id = u.issued THEN (IF ok THEN "ok" ELSE "failed") ELSE @,
               !.completed = IF ok THEN "ok" ELSE "failed" ]

acted(u) == [ u EXCEPT !.cleared = FALSE ]

\* AIProducts, CPUProducts: the search input changes; the effect on
\* [search, selectedBrand] fetches page 1.
ListSetSearch ==
    /\ ui.component \in ListComponents
    /\ ui.issued < MaxRequests
    /\ \E v \in SearchInputs \ {ui.searchTerm} :
          ui' = fetchProducts([ acted(ui) EXCEPT !.searchTerm = v ], v, ui.selectedBrand, 1)
    /\ UNCHANGED serverVars

\* AIProducts, CPUProducts: the brand select changes; the effect fetches page 1.
ListSetBrand ==
    /\ ui.component \in ListComponents
    /\ ui.issued < MaxRequests
    /\ \E b \in BrandOptions \ {ui.selectedBrand} :
          ui' = fetchProducts([ acted(ui) EXCEPT !.selectedBrand = b ], ui.searchTerm, b, 1)
    /\ UNCHANGED serverVars

\* AIProducts, CPUProducts: a pagination button of the list on display
ListPageChange ==
    /\ ui.component \in ListComponents
    /\ ui.issued < MaxRequests
    /\ ~ui.loading
    /\ ui.data # NoData
    /\ \E newPage \in (1..MaxUiPage) \ {ui.data.page} :
          ui' = fetchProducts(acted(ui), ui.searchTerm, ui.selectedBrand, newPage)
    /\ UNCHANGED serverVars

\* The products page renders its controls when it is neither loading nor in
\* error
controlsShown == ui.component = "ProductsPage" /\ ~ui.loading /\ ~ui.error

\* ProductsPage.handleSearch: setSearchTerm, setCurrentPage(1), then
\* fetchProducts(searchValue) of this render (its currentPage); when the page
\* changes the memoized fetchProducts is made anew and the effect calls it.
PageHandleSearch ==
    /\ controlsShown
    /\ ui.issued + (IF ui.currentPage = 1 THEN 1 ELSE 2) <= MaxRequests
    /\ \E v \in SearchInputs :
          LET first == fetchProducts([ acted(ui) EXCEPT !.searchTerm = v, !.currentPage = 1 ],
                                     v, ui.selectedBrand, ui.currentPage)
          IN  ui' = IF ui.currentPage = 1 THEN first
                    ELSE fetchProducts([ first EXCEPT !.memoSearch = v ],
                                       v, ui.selectedBrand, 1)
    /\ UNCHANGED serverVars

\* ProductsPage: the brand select changes; fetchProducts is made anew and the
\* effect calls it.
PageSetBrand ==
    /\ controlsShown
    /\ ui.issued < MaxRequests
    /\ \E b \in BrandOptions \ {ui.selectedBrand} :
          ui' = fetchProducts([ acted(ui) EXCEPT !.selectedBrand = b,
                                                 !.memoSearch = ui.searchTerm ],
                              ui.searchTerm, b, ui.currentPage)
    /\ UNCHANGED serverVars

\* ProductsPage: Previous / Next
PageSetCurrentPage ==
    /\ controlsShown
    /\ ui.issued < MaxRequests
    /\ ui.data # NoData
    /\ \E newPage \in (1..MaxUiPage) \ {ui.currentPage} :
          ui' = fetchProducts([ acted(ui) EXCEPT !.currentPage = newPage,
                                                 !.memoSearch = ui.searchTerm ],
                              ui.searchTerm, ui.selectedBrand, newPage)
    /\ UNCHANGED serverVars

\* ProductsPage.clearFilters: the setters; fetchProducts is made anew, and the
\* effect calls it, only when currentPage or selectedBrand changes.
clearFilters(u) ==
    LET reset == [ u EXCEPT !.searchTerm = <<>>, !.selectedBrand = <<>>,
                            !.currentPage = 1, !.cleared = TRUE ]
    IN  IF u.currentPage # 1 \/ u.selectedBrand # <<>>
        THEN fetchProducts([ reset EXCEPT !.memoSearch = <<>> ], <<>>, <<>>, 1)
        ELSE reset

PageClearFilters ==
    /\ controlsShown
    /\ ui.issued < MaxRequests
    /\ ui' = clearFilters(ui)
    /\ UNCHANGED serverVars

\* ProductsPage: Try Again on the error view calls fetchProducts().
PageTryAgain ==
    /\ ui.component = "ProductsPage" /\ ~ui.loading /\ ui.error
    /\ ui.issued < MaxRequests
    /\ ui' = fetchProducts(acted(ui), ui.memoSearch, ui.selectedBrand, ui.currentPage)
    /\ UNCHANGED serverVars

\* The answer to a request in flight arrives, whichever request it is.
FetchAnswers ==
    /\ \E r \in ui.inflight : ui' = settle(ui, r, TRUE)
    /\ UNCHANGED serverVars

\* A request in flight fails (the route answers an error, the network drops).
FetchFails ==
    /\ \E r \in ui.inflight : ui' = settle(ui, r, FALSE)
    /\ UNCHANGED serverVars

InitUi == IdleStore /\ EngineIdle /\ ui \in {mounted(c) : c \in Components}

NextUi ==
    \/ ListSetSearch
    \/ ListSetBrand
    \/ ListPageChange
    \/ PageHandleSearch
    \/ PageSetBrand
    \/ PageSetCurrentPage
    \/ PageClearFilters
    \/ PageTryAgain
    \/ FetchAnswers
    \/ FetchFails

SpecUi == InitUi /\ [][NextUi]_vars

-----------------------------------------------------------------------------
(* Properties of the product list components *)

\* C24: once no request is in flight, the displayed products and pagination
\* are those of the most recently issued request (when that request was
\* answered); an older response never overwrites a newer one.
C24_LatestRequestDisplayed ==
    (ui.component \in Components /\ ui.inflight = {} /\ ui.answered = "ok") =>
        ui.data = ui.last

\* C25: on the products page the error state does not outlive a successful
\* fetch: when the most recently completed fetch succeeded and none is in
\* flight, no error is shown.
C25_ErrorClearedBySuccess ==
    (ui.component = "ProductsPage" /\ ui.inflight = {} /\ ui.completed = "ok") =>
        ~ui.error

\* C28: on the products page, after clearFilters and once no request is in
\* flight, the displayed list is the unfiltered first page (when every fetch
\* since was answered).
C28_ClearedShowsUnfilteredFirstPage ==
    (ui.component = "ProductsPage" /\ ui.cleared /\ ui.inflight = {} /\ ~ui.error) =>
        ui.data = Params(<<>>, <<>>, 1)

====
